---- MODULE Spec2Model ----
(***************************************************************************)
(* Model of pkg/geoip/geoip.go: Lookup(ip) tries the remote ipinfo.io      *)
(* service first and falls back to a local mmdb database that is opened    *)
(* once, lazily, through sync.Once (external file preferred, embedded      *)
(* database otherwise).                                                     *)
(*                                                                         *)
(* Strings are sequences of one-character strings, so that len(),          *)
(* strings.TrimSpace and strings.ToLower are computed, not assumed.        *)
(* The characters are ASCII, so Go's byte length is the character count.   *)
(* Errors are strings; NoErr stands for Go's nil error.                    *)
(***************************************************************************)
EXTENDS Naturals, Sequences, FiniteSets, TLC

\* ---------------------------------------------------------------- bounds
NumCallers == 2      \* goroutines calling Lookup concurrently
MaxBodyLen == 3      \* longest HTTP body the remote service answers with
MaxCount == 3        \* the bookkeeping counters saturate here

\* ------------------------------------------------------- program constants
StatusOK == 200      \* http.StatusOK
CodeLen == 2         \* the "2" of len(code) != 2 and len(record.Country) == 2

\* ------------------------------------------------------------------ errors
NoErr == "nil"
ErrNet == "http get failed"
ErrStatus == "ipinfo status not OK"
ErrRead == "read body failed"
ErrInvalidCode == "invalid country code from ipinfo"
ErrNilIP == "nil ip"
ErrInit == "embedded database does not parse"
ErrDBLookup == "database lookup failed"
ErrNotFound == "IP not found"

RemoteErrors == {ErrNet, ErrStatus, ErrRead, ErrInvalidCode, ErrNilIP}
LocalErrors == {ErrInit, ErrDBLookup, ErrNotFound}

\* ----------------------------------------------------------------- strings
Empty == << >>

IsSpace(c) == c \in {" ", "\n", "\t"}

\* unicode.ToLower on the characters the model uses
ToLowerChar(c) ==
    CASE c = "A" -> "a" [] c = "E" -> "e" [] c = "J" -> "j"
      [] c = "P" -> "p" [] c = "S" -> "s" [] c = "U" -> "u"
      [] OTHER -> c

ToLower(s) == [i \in 1..Len(s) |-> ToLowerChar(s[i])]

\* strings.TrimSpace: drop leading and trailing white space, keep the inside
TrimSpace(s) ==
    LET keep == {i \in 1..Len(s) : ~IsSpace(s[i])}
    IN IF keep = {} THEN Empty
       ELSE LET lo == CHOOSE i \in keep : \A j \in keep : i <= j
                hi == CHOOSE i \in keep : \A j \in keep : j <= i
            IN SubSeq(s, lo, hi)

RECURSIVE SeqsUpTo(_, _)
SeqsUpTo(S, n) ==
    IF n = 0 THEN {Empty}
    ELSE LET shorter == SeqsUpTo(S, n - 1)
         IN shorter \cup {Append(s, c) : s \in {t \in shorter : Len(t) = n - 1}, c \in S}

\* -------------------------------------------------------------- the remote
BodyChars == {"U", "s", " ", "\n"}
Bodies == SeqsUpTo(BodyChars, MaxBodyLen)
Statuses == {StatusOK, 404, 429}

\* what httpClient.Get and io.ReadAll can produce for one request
Responses ==
    {[neterr |-> TRUE, status |-> 0, readerr |-> FALSE, body |-> Empty]}
      \cup {[neterr |-> FALSE, status |-> s, readerr |-> FALSE, body |-> b] :
              s \in Statuses, b \in Bodies}
      \cup {[neterr |-> FALSE, status |-> StatusOK, readerr |-> TRUE, body |-> Empty]}
NoResp == [neterr |-> FALSE, status |-> 0, readerr |-> FALSE, body |-> Empty]

SmallResponses ==
    {[neterr |-> TRUE, status |-> 0, readerr |-> FALSE, body |-> Empty],
     [neterr |-> FALSE, status |-> StatusOK, readerr |-> FALSE, body |-> <<"U", "s", "\n">>]}

Result(c, e) == [code |-> c, err |-> e]
NoResult == Result(Empty, NoErr)

FetchIPInfoCountryNoLower(r) ==
    IF r.neterr THEN Result(Empty, ErrNet)
    ELSE IF r.status # StatusOK THEN Result(Empty, ErrStatus)
    ELSE IF r.readerr THEN Result(Empty, ErrRead)
    ELSE IF Len(TrimSpace(r.body)) # CodeLen THEN Result(Empty, ErrInvalidCode)
    ELSE Result(TrimSpace(r.body), NoErr)

\* fetchIPInfoCountry, from the response of httpClient.Get on
FetchIPInfoCountry(r) ==
    IF r.neterr THEN Result(Empty, ErrNet)
    ELSE IF r.status # StatusOK THEN Result(Empty, ErrStatus)
    ELSE IF r.readerr THEN Result(Empty, ErrRead)
    ELSE LET c == TrimSpace(r.body)
         IN IF Len(c) # CodeLen THEN Result(Empty, ErrInvalidCode)
            ELSE Result(ToLower(c), NoErr)

\* ------------------------------------------------------------ the database
\* IPInfo, the four fields Lookup reads
IPInfo(cc, c, kc, k) ==
    [country_code |-> cc, country |-> c, continent_code |-> kc, continent |-> k]
ZeroRecord == IPInfo(Empty, Empty, Empty, Empty)

Records ==
    {IPInfo(cc, c, kc, k) :
        cc \in {Empty, <<"U", "S">>, <<"U", "S", "A">>},
        c \in {Empty, <<"J", "P">>, <<"J", "a", "p", "a", "n">>},
        kc \in {Empty, <<"E", "U">>, <<"E">>},
        k \in {Empty, <<"A", "S">>, <<"A", "s", "i", "a">>}}

\* what db.Lookup(ip, &record) can do for a non-nil address: fail, find no
\* record (nil error, record left as it was), or fill the record
Outcome(kind, rec) == [kind |-> kind, rec |-> rec]
Outcomes ==
    {Outcome("error", ZeroRecord), Outcome("absent", ZeroRecord)}
      \cup {Outcome("found", r) : r \in Records}
SmallOutcomes ==
    {Outcome("error", ZeroRecord), Outcome("absent", ZeroRecord),
     Outcome("found", IPInfo(Empty, <<"J", "P">>, Empty, <<"A", "S">>)),
     Outcome("found", IPInfo(<<"U", "S">>, <<"J", "a", "p", "a", "n">>, <<"E", "U">>, Empty))}

ExtractCountryFirst(rec) ==
    IF rec.country # Empty /\ Len(rec.country) = CodeLen
      THEN Result(ToLower(rec.country), NoErr)
    ELSE IF rec.country_code # Empty THEN Result(ToLower(rec.country_code), NoErr)
    ELSE IF rec.continent_code # Empty THEN Result(ToLower(rec.continent_code), NoErr)
    ELSE IF rec.continent # Empty /\ Len(rec.continent) = CodeLen
      THEN Result(ToLower(rec.continent), NoErr)
    ELSE Result(Empty, ErrNotFound)

ExtractNoFinalError(rec) ==
    IF rec.country_code # Empty THEN Result(ToLower(rec.country_code), NoErr)
    ELSE IF rec.country # Empty /\ Len(rec.country) = CodeLen
      THEN Result(ToLower(rec.country), NoErr)
    ELSE IF rec.continent_code # Empty THEN Result(ToLower(rec.continent_code), NoErr)
    ELSE Result(ToLower(rec.continent), NoErr)

\* the field priority at the end of Lookup
Extract(rec) ==
    IF rec.country_code # Empty THEN Result(ToLower(rec.country_code), NoErr)
    ELSE IF rec.country # Empty /\ Len(rec.country) = CodeLen
      THEN Result(ToLower(rec.country), NoErr)
    ELSE IF rec.continent_code # Empty THEN Result(ToLower(rec.continent_code), NoErr)
    ELSE IF rec.continent # Empty /\ Len(rec.continent) = CodeLen
      THEN Result(ToLower(rec.continent), NoErr)
    ELSE Result(Empty, ErrNotFound)

\* ------------------------------------------------------------------- state
Procs == 1..NumCallers
NilIP == "nil"
IPs == {NilIP, "8.8.8.8", "2001:db8::1"}
SmallIPs == {"8.8.8.8"}

FileStates == {"absent", "dir", "valid", "corrupt"}
NoReader == "nil"

VARIABLES
    extFile,      \* what is at externalDBPath right now
    embeddedOK,   \* whether the embedded geoip.db parses (fixed at build time)
    onceDone,     \* dbOnce.done
    onceM,        \* dbOnce.m: 0 when free, else the goroutine holding it
    dbReader,     \* the package variable dbReader
    dbInitErr,    \* the package variable dbInitErr
    pc,           \* where each goroutine is in Lookup
    ip,           \* Lookup's argument
    late,         \* whether the call began after initialisation had completed
    resp,         \* the HTTP response fetchIPInfoCountry is working on
    rem,          \* (code, err) of lookupFromIPInfo in Lookup
    db,           \* (db, err) of getDB in Lookup
    record,       \* Lookup's var record IPInfo
    dbOut,        \* how db.Lookup ended: "none", "error", "absent", "found"
    ret,          \* what Lookup returned
    initCount,    \* how many times initDB has been entered
    fsAccess,     \* how many os.Stat / maxminddb.Open calls have been made
    saw           \* what os.Stat and maxminddb.Open found at externalDBPath

envVars == <<extFile, embeddedOK>>
onceVars == <<onceDone, onceM, dbReader, dbInitErr>>
callVars == <<pc, ip, late, resp, rem, db, record, dbOut, ret>>
ghostVars == <<initCount, fsAccess, saw>>
vars == <<extFile, embeddedOK, onceDone, onceM, dbReader, dbInitErr,
          pc, ip, late, resp, rem, db, record, dbOut, ret, initCount, fsAccess, saw>>

NoDB == [reader |-> NoReader, err |-> NoErr]
Bump(n) == IF n < MaxCount THEN n + 1 ELSE n

Init ==
    /\ extFile \in FileStates
    /\ embeddedOK \in BOOLEAN
    /\ onceDone = 0
    /\ onceM = 0
    /\ dbReader = NoReader
    /\ dbInitErr = NoErr
    /\ pc = [p \in Procs |-> "idle"]
    /\ ip = [p \in Procs |-> NilIP]
    /\ late = [p \in Procs |-> FALSE]
    /\ resp = [p \in Procs |-> NoResp]
    /\ rem = [p \in Procs |-> NoResult]
    /\ db = [p \in Procs |-> NoDB]
    /\ record = [p \in Procs |-> ZeroRecord]
    /\ dbOut = [p \in Procs |-> "none"]
    /\ ret = [p \in Procs |-> NoResult]
    /\ initCount = 0
    /\ fsAccess = 0
    /\ saw = [stat |-> "none", open |-> "none"]

Goto(p, label) == pc' = [pc EXCEPT ![p] = label]

\* ------------------------------------------------------------------ Lookup
\* Lookup's test of the remote result: a non-empty code without error is
\* returned at once, anything else goes on to getDB
AfterRemote(p, r) ==
    /\ rem' = [rem EXCEPT ![p] = r]
    /\ IF r.err = NoErr /\ r.code # Empty
         THEN /\ ret' = [ret EXCEPT ![p] = Result(r.code, NoErr)]
              /\ Goto(p, "done")
         ELSE /\ ret' = ret
              /\ Goto(p, "getDB")

\* Lookup(ip) is called and enters lookupFromIPInfo: a nil ip fails without
\* a request, any other ip is sent to the service
LookupStart(p, addrs) ==
    /\ pc[p] = "idle"
    /\ late' = [late EXCEPT ![p] = (onceDone = 1)]
    /\ \E a \in addrs :
         /\ ip' = [ip EXCEPT ![p] = a]
         /\ IF a = NilIP
              THEN AfterRemote(p, Result(Empty, ErrNilIP))
              ELSE /\ Goto(p, "http")
                   /\ UNCHANGED <<rem, ret>>
    /\ UNCHANGED <<envVars, onceVars, ghostVars, resp, db, record, dbOut>>

\* httpClient.Get(url) and io.ReadAll(resp.Body) end, one way or another
HttpGet(p, answers) ==
    /\ pc[p] = "http"
    /\ \E r \in answers : resp' = [resp EXCEPT ![p] = r]
    /\ Goto(p, "parse")
    /\ UNCHANGED <<envVars, onceVars, ghostVars, ip, late, rem, db, record, dbOut, ret>>

FetchReturnSurfaceErr(p) ==
    /\ pc[p] = "parse"
    /\ LET r == FetchIPInfoCountry(resp[p])
       IN /\ rem' = [rem EXCEPT ![p] = r]
          /\ ret' = [ret EXCEPT ![p] = r]
          /\ Goto(p, "done")
    /\ resp' = [resp EXCEPT ![p] = NoResp]
    /\ UNCHANGED <<envVars, onceVars, ghostVars, ip, late, db, record, dbOut>>

FetchReturnAlwaysDB(p) ==
    /\ pc[p] = "parse"
    /\ rem' = [rem EXCEPT ![p] = FetchIPInfoCountry(resp[p])]
    /\ Goto(p, "getDB")
    /\ resp' = [resp EXCEPT ![p] = NoResp]
    /\ UNCHANGED <<envVars, onceVars, ghostVars, ip, late, db, record, dbOut, ret>>

\* fetchIPInfoCountry returns and Lookup tests its result
FetchReturn(p) ==
    /\ pc[p] = "parse"
    /\ AfterRemote(p, FetchIPInfoCountry(resp[p]))
    /\ resp' = [resp EXCEPT ![p] = NoResp]
    /\ UNCHANGED <<envVars, onceVars, ghostVars, ip, late, db, record, dbOut>>

\* ------------------------------------------------------ getDB and sync.Once
OnceFastRetryIfNil(p) ==
    /\ pc[p] = "getDB"
    /\ IF dbReader # NoReader
         THEN /\ Goto(p, "ret")
              /\ UNCHANGED initCount
         ELSE /\ Goto(p, "stat")
              /\ initCount' = Bump(initCount)
    /\ UNCHANGED <<envVars, onceVars, fsAccess, saw, ip, late, resp, rem, db, record, dbOut, ret>>

\* Once.Do, fast path: done is loaded atomically
OnceFast(p) ==
    /\ pc[p] = "getDB"
    /\ IF onceDone = 1 THEN Goto(p, "ret") ELSE Goto(p, "lock")
    /\ UNCHANGED <<envVars, onceVars, ghostVars, ip, late, resp, rem, db, record, dbOut, ret>>

\* Once.doSlow: o.m.Lock()
OnceLock(p) ==
    /\ pc[p] = "lock"
    /\ onceM = 0
    /\ onceM' = p
    /\ Goto(p, "slow")
    /\ UNCHANGED <<envVars, onceDone, dbReader, dbInitErr, ghostVars,
                   ip, late, resp, rem, db, record, dbOut, ret>>

OnceSlowNoRecheck(p) ==
    /\ pc[p] = "slow"
    /\ Goto(p, "stat")
    /\ initCount' = Bump(initCount)
    /\ UNCHANGED <<envVars, onceVars, fsAccess, saw, ip, late, resp, rem, db, record, dbOut, ret>>

\* Once.doSlow under the lock: done is read again, f runs only if it is 0
OnceSlow(p) ==
    /\ pc[p] = "slow"
    /\ IF onceDone = 0
         THEN /\ Goto(p, "stat")
              /\ initCount' = Bump(initCount)
              /\ onceM' = onceM
         ELSE /\ Goto(p, "ret")
              /\ initCount' = initCount
              /\ onceM' = 0
    /\ UNCHANGED <<envVars, onceDone, dbReader, dbInitErr, fsAccess, saw,
                   ip, late, resp, rem, db, record, dbOut, ret>>

\* initDB: os.Stat(externalDBPath)
InitStat(p) ==
    /\ pc[p] = "stat"
    /\ fsAccess' = Bump(fsAccess)
    /\ saw' = [saw EXCEPT !.stat = extFile]
    /\ IF extFile \in {"valid", "corrupt"} THEN Goto(p, "open") ELSE Goto(p, "embedded")
    /\ UNCHANGED <<envVars, onceVars, initCount, ip, late, resp, rem, db, record, dbOut, ret>>

InitOpenNoFallback(p) ==
    /\ pc[p] = "open"
    /\ fsAccess' = Bump(fsAccess)
    /\ saw' = [saw EXCEPT !.open = extFile]
    /\ IF extFile = "valid"
         THEN /\ dbReader' = "external"
              /\ dbInitErr' = dbInitErr
         ELSE /\ dbInitErr' = ErrInit
              /\ dbReader' = dbReader
    /\ Goto(p, "store")
    /\ UNCHANGED <<envVars, onceDone, onceM, initCount, ip, late, resp, rem, db, record, dbOut, ret>>

\* initDB: maxminddb.Open(externalDBPath)
InitOpen(p) ==
    /\ pc[p] = "open"
    /\ fsAccess' = Bump(fsAccess)
    /\ saw' = [saw EXCEPT !.open = extFile]
    /\ IF extFile = "valid"
         THEN /\ dbReader' = "external"
              /\ Goto(p, "store")
         ELSE /\ dbReader' = dbReader
              /\ Goto(p, "embedded")
    /\ UNCHANGED <<envVars, onceDone, onceM, dbInitErr, initCount,
                   ip, late, resp, rem, db, record, dbOut, ret>>

\* initDB: maxminddb.FromBytes(embeddedDB)
InitEmbedded(p) ==
    /\ pc[p] = "embedded"
    /\ IF embeddedOK
         THEN /\ dbReader' = "embedded"
              /\ dbInitErr' = dbInitErr
         ELSE /\ dbInitErr' = ErrInit
              /\ dbReader' = dbReader
    /\ Goto(p, "store")
    /\ UNCHANGED <<envVars, onceDone, onceM, ghostVars, ip, late, resp, rem, db, record, dbOut, ret>>

\* Once.doSlow, first deferred call to run: o.done.Store(1)
OnceStore(p) ==
    /\ pc[p] = "store"
    /\ onceDone' = 1
    /\ Goto(p, "unlock")
    /\ UNCHANGED <<envVars, onceM, dbReader, dbInitErr, ghostVars,
                   ip, late, resp, rem, db, record, dbOut, ret>>

\* Once.doSlow, second deferred call: o.m.Unlock()
OnceUnlock(p) ==
    /\ pc[p] = "unlock"
    /\ onceM' = 0
    /\ Goto(p, "ret")
    /\ UNCHANGED <<envVars, onceDone, dbReader, dbInitErr, ghostVars,
                   ip, late, resp, rem, db, record, dbOut, ret>>

GetDBReturnIgnoreErr(p) ==
    /\ pc[p] = "ret"
    /\ db' = [db EXCEPT ![p] = [reader |-> dbReader, err |-> dbInitErr]]
    /\ Goto(p, "query")
    /\ UNCHANGED <<envVars, onceVars, ghostVars, ip, late, resp, rem, record, dbOut, ret>>

\* getDB returns (dbReader, dbInitErr); Lookup returns the error if there is one
GetDBReturn(p) ==
    /\ pc[p] = "ret"
    /\ db' = [db EXCEPT ![p] = [reader |-> dbReader, err |-> dbInitErr]]
    /\ IF dbInitErr # NoErr
         THEN /\ ret' = [ret EXCEPT ![p] = Result(Empty, dbInitErr)]
              /\ Goto(p, "done")
         ELSE /\ ret' = ret
              /\ Goto(p, "query")
    /\ UNCHANGED <<envVars, onceVars, ghostVars, ip, late, resp, rem, record, dbOut>>

\* db.Lookup(ip, &record) and the field priority.  The reader rejects a nil
\* ip with an error; for an address it has no record of it returns a nil
\* error and leaves record as declared, all fields empty.
DBLookup(p, outs) ==
    /\ pc[p] = "query"
    /\ \E o \in outs :
         LET out == IF ip[p] = NilIP THEN Outcome("error", ZeroRecord) ELSE o
             rec == IF out.kind = "found" THEN out.rec ELSE ZeroRecord
         IN /\ dbOut' = [dbOut EXCEPT ![p] = out.kind]
            /\ record' = [record EXCEPT ![p] = rec]
            /\ ret' = [ret EXCEPT ![p] =
                         IF out.kind = "error" THEN Result(Empty, ErrDBLookup)
                         ELSE Extract(rec)]
    /\ Goto(p, "done")
    /\ UNCHANGED <<envVars, onceVars, ghostVars, ip, late, resp, rem, db>>

\* the caller has the result; the goroutine is free for the next call
Return(p) ==
    /\ pc[p] = "done"
    /\ Goto(p, "idle")
    /\ ip' = [ip EXCEPT ![p] = NilIP]
    /\ late' = [late EXCEPT ![p] = FALSE]
    /\ rem' = [rem EXCEPT ![p] = NoResult]
    /\ db' = [db EXCEPT ![p] = NoDB]
    /\ record' = [record EXCEPT ![p] = ZeroRecord]
    /\ dbOut' = [dbOut EXCEPT ![p] = "none"]
    /\ ret' = [ret EXCEPT ![p] = NoResult]
    /\ UNCHANGED <<envVars, onceVars, ghostVars, resp>>

\* the deployment: the file at externalDBPath appears, disappears or changes
FileChange ==
    /\ \E f \in FileStates \ {extFile} : extFile' = f
    /\ UNCHANGED <<embeddedOK, onceVars, callVars, ghostVars>>

\* ---------------------------------------------------------- specifications
\* NumCallers goroutines, a small choice of inputs
Next ==
    \/ \E p \in Procs :
         \/ LookupStart(p, SmallIPs)
         \/ HttpGet(p, SmallResponses)
         \/ FetchReturn(p)
         \/ OnceFast(p)
         \/ OnceLock(p)
         \/ OnceSlow(p)
         \/ InitStat(p)
         \/ InitOpen(p)
         \/ InitEmbedded(p)
         \/ OnceStore(p)
         \/ OnceUnlock(p)
         \/ GetDBReturn(p)
         \/ DBLookup(p, SmallOutcomes)
         \/ Return(p)
    \/ FileChange

Spec == Init /\ [][Next]_vars

\* one goroutine calling Lookup again and again, every input
NextSeq ==
    \/ LookupStart(1, IPs)
    \/ HttpGet(1, Responses)
    \/ FetchReturn(1)
    \/ OnceFast(1)
    \/ OnceLock(1)
    \/ OnceSlow(1)
    \/ InitStat(1)
    \/ InitOpen(1)
    \/ InitEmbedded(1)
    \/ OnceStore(1)
    \/ OnceUnlock(1)
    \/ GetDBReturn(1)
    \/ DBLookup(1, Outcomes)
    \/ Return(1)
    \/ FileChange

SpecSeq == Init /\ [][NextSeq]_vars

\* ------------------------------------------------------------------ claims
\* the remote tier gave Lookup a usable code
RemoteOK(p) == rem[p].err = NoErr /\ rem[p].code # Empty
\* p's call went through getDB and has what getDB returned
Observed(p) == pc[p] = "query" \/ (pc[p] = "done" /\ ~RemoteOK(p))
InInitDB(p) == pc[p] \in {"stat", "open", "embedded"}
InitFailed == onceDone = 1 /\ dbInitErr # NoErr
\* the response is HTTP 200 with a body whose trimmed length is exactly 2
GoodResponse(r) ==
    /\ ~r.neterr
    /\ ~r.readerr
    /\ r.status = StatusOK
    /\ Len(TrimSpace(r.body)) = 2

\* C1: for a non-nil ip and an HTTP 200 answer whose trimmed body has exactly
\* 2 characters, Lookup returns that body lowercased with a nil error, in
\* every state of the local database.
C1_RemoteWins ==
    [][\A p \in Procs :
         (pc[p] = "parse" /\ pc'[p] # "parse" /\ ip[p] # NilIP /\ GoodResponse(resp[p]))
           => /\ pc'[p] = "done"
              /\ ret'[p] = Result(ToLower(TrimSpace(resp[p].body)), NoErr)]_vars

C1_Witness ==
    \E p \in Procs :
      /\ pc[p] = "done"
      /\ RemoteOK(p)
      /\ ret[p] = Result(<<"u", "s">>, NoErr)
      /\ InitFailed

\* C2: when the remote tier failed and the database returned a record, the
\* result follows the priority country_code, 2-character country,
\* continent_code, 2-character continent, else "IP not found", whichever
\* database is the active one.
C2_FieldPriority ==
    \A p \in Procs :
      (pc[p] = "done" /\ dbOut[p] = "found") =>
        LET r == record[p]
            noCountry == r.country_code = Empty /\ ~(r.country # Empty /\ Len(r.country) = 2)
            noContinentCode == noCountry /\ r.continent_code = Empty
        IN /\ db[p].reader \in {"external", "embedded"}
           /\ r.country_code # Empty => ret[p] = Result(ToLower(r.country_code), NoErr)
           /\ (r.country_code = Empty /\ r.country # Empty /\ Len(r.country) = 2)
                => ret[p] = Result(ToLower(r.country), NoErr)
           /\ (noCountry /\ r.continent_code # Empty)
                => ret[p] = Result(ToLower(r.continent_code), NoErr)
           /\ (noContinentCode /\ r.continent # Empty /\ Len(r.continent) = 2)
                => ret[p] = Result(ToLower(r.continent), NoErr)
           /\ (noContinentCode /\ ~(r.continent # Empty /\ Len(r.continent) = 2))
                => ret[p] = Result(Empty, ErrNotFound)

C2_Witness ==
    \E p \in Procs :
      /\ pc[p] = "done"
      /\ dbOut[p] = "found"
      /\ db[p].reader = "embedded"
      /\ record[p] = IPInfo(Empty, <<"J", "a", "p", "a", "n">>, <<"E", "U">>, <<"A", "S">>)
      /\ ret[p] = Result(<<"e", "u">>, NoErr)

\* C3: every Lookup call returns a non-nil error or a string of exactly two
\* characters.
C3_TwoLettersOrError ==
    \A p \in Procs : pc[p] = "done" => (ret[p].err # NoErr \/ Len(ret[p].code) = 2)

\* C4: when several callers reach getDB before the database is initialised,
\* initDB runs exactly once, nobody returns from getDB before it has finished,
\* and all callers get the same reader and the same error, never a nil reader
\* with a nil error.
C4_InitOnce ==
    /\ initCount <= 1
    /\ \A p \in Procs :
         (pc[p] = "ret" \/ Observed(p)) =>
           /\ initCount = 1
           /\ onceDone = 1
           /\ \A q \in Procs : ~InInitDB(q)
    /\ \A p \in Procs :
         Observed(p) =>
           /\ db[p] = [reader |-> dbReader, err |-> dbInitErr]
           /\ ~(db[p].reader = NoReader /\ db[p].err = NoErr)
           /\ \A q \in Procs : Observed(q) => db[q] = db[p]

C4_Witness ==
    \E p, q \in Procs :
      /\ p # q
      /\ pc[p] = "query"
      /\ pc[q] = "slow"
      /\ initCount = 1

\* C5: initDB makes the external database the active one when the file at the
\* external path exists and opens; when it is absent or does not open, the
\* embedded database becomes the active one without error if it parses, and an
\* error is recorded only when it does not.
C5_SourceSelection ==
    onceDone = 1 =>
      LET externalUsable == saw.stat \in {"valid", "corrupt"} /\ saw.open = "valid"
      IN /\ saw.stat # "none"
         /\ externalUsable => (dbReader = "external" /\ dbInitErr = NoErr)
         /\ (~externalUsable /\ embeddedOK) => (dbReader = "embedded" /\ dbInitErr = NoErr)
         /\ (~externalUsable /\ ~embeddedOK) => (dbReader = NoReader /\ dbInitErr = ErrInit)
         /\ dbInitErr # NoErr => (~externalUsable /\ ~embeddedOK)

C5_Witness ==
    /\ onceDone = 1
    /\ saw.stat = "corrupt"
    /\ saw.open = "corrupt"
    /\ dbReader = "embedded"
    /\ dbInitErr = NoErr

\* C6 as stated: once initialisation has failed, every later Lookup fails with
\* the recorded error.
C6_AllLookupsFail ==
    \A p \in Procs :
      (pc[p] = "done" /\ late[p] /\ InitFailed) => ret[p] = Result(Empty, dbInitErr)

\* C6 amended: once initialisation has failed, the failure stays recorded,
\* initDB is never entered again, and every later Lookup whose remote tier
\* fails returns the recorded error.
C6_InitFailurePermanent ==
    /\ [](\A p \in Procs :
            (pc[p] = "done" /\ InitFailed /\ ~RemoteOK(p)) =>
              (ret[p] = Result(Empty, ErrInit) /\ db[p].err = ErrInit))
    /\ [][InitFailed =>
            /\ InitFailed'
            /\ dbInitErr' = dbInitErr
            /\ dbReader' = NoReader
            /\ initCount' = initCount
            /\ \A p \in Procs : ~InInitDB(p)']_vars

C6_Witness ==
    \E p \in Procs :
      /\ pc[p] = "done"
      /\ InitFailed
      /\ ~RemoteOK(p)
      /\ late[p]
      /\ ret[p] = Result(Empty, ErrInit)

\* C7: once initialisation has completed, the reader and the error never
\* change and the filesystem is not accessed again, whatever happens to the
\* external file; exactly one outcome (one reader, or the error) is cached.
C7_ChosenOnce ==
    /\ [](onceDone = 1 =>
            \/ (dbReader \in {"external", "embedded"} /\ dbInitErr = NoErr)
            \/ (dbReader = NoReader /\ dbInitErr = ErrInit))
    /\ [][onceDone = 1 =>
            /\ onceDone' = 1
            /\ dbReader' = dbReader
            /\ dbInitErr' = dbInitErr
            /\ fsAccess' = fsAccess
            /\ saw' = saw
            /\ initCount' = initCount]_vars

C7_Witness ==
    \E p \in Procs :
      /\ pc[p] = "query"
      /\ late[p]
      /\ db[p].reader = "embedded"
      /\ saw.stat = "absent"
      /\ extFile = "valid"
      /\ initCount = 1
      /\ fsAccess = 1

\* C8: a failure of the remote tier (nil ip without a request, network error,
\* non-200 status, trimmed body not of 2 characters) is never returned: Lookup
\* goes on to getDB, and any error it returns comes from the local tier.
C8_RemoteErrorsSwallowed ==
    /\ [](\A p \in Procs :
            pc[p] = "done" =>
              /\ ret[p].err \notin RemoteErrors
              /\ ret[p].err # NoErr => ret[p].err \in LocalErrors
              /\ ~RemoteOK(p) => (rem[p].err \in RemoteErrors /\ db[p] # NoDB))
    /\ [][\A p \in Procs :
            /\ (pc[p] = "parse" /\ pc'[p] # "parse" /\ ~GoodResponse(resp[p]))
                 => pc'[p] = "getDB"
            /\ (pc[p] = "idle" /\ pc'[p] # "idle" /\ ip'[p] = NilIP)
                 => (pc'[p] = "getDB" /\ resp' = resp)]_vars

C8_Witness ==
    \E p \in Procs :
      /\ pc[p] = "done"
      /\ ip[p] # NilIP
      /\ rem[p].err = ErrInvalidCode
      /\ ret[p] = Result(Empty, ErrNotFound)

\* C9 as stated: for an address the active database has no record of, with
\* the remote tier unavailable, Lookup fails with an error of the record
\* lookup step, which is not "IP not found".
C9_RecordNotFoundDistinct ==
    \A p \in Procs :
      (pc[p] = "done" /\ dbOut[p] = "absent") =>
        (ret[p].err = ErrDBLookup /\ ret[p].err # ErrNotFound)

\* C9 amended: for such an address the record lookup step reports no error
\* and leaves the record empty, and Lookup fails with "IP not found", the
\* error of a record none of whose four fields is usable.
C9_AbsentIsNotFound ==
    \A p \in Procs :
      (pc[p] = "done" /\ dbOut[p] = "absent") =>
        /\ ~RemoteOK(p)
        /\ record[p] = ZeroRecord
        /\ ret[p] = Result(Empty, ErrNotFound)

C9_Witness ==
    \E p \in Procs :
      /\ pc[p] = "done"
      /\ dbOut[p] = "absent"
      /\ ip[p] # NilIP
      /\ rem[p].err = ErrNet
      /\ ret[p].err = ErrNotFound

\* C10: the database is consulted only after the remote tier has failed: the
\* remote part of a Lookup leaves dbOnce, dbReader, dbInitErr and the
\* filesystem alone, a Lookup whose remote tier succeeds returns without
\* entering getDB, and a caller is in getDB or beyond only with a failed
\* remote attempt behind it.
C10_RemoteFirst ==
    /\ [](\A p \in Procs :
            /\ pc[p] \notin {"idle", "http", "parse", "done"} => rem[p].err \in RemoteErrors
            /\ (pc[p] = "done" /\ RemoteOK(p)) => (db[p] = NoDB /\ dbOut[p] = "none"))
    /\ [][\A p \in Procs :
            (pc[p] \in {"idle", "http", "parse"} /\ pc'[p] # pc[p]) =>
              /\ UNCHANGED <<onceVars, ghostVars>>
              /\ (pc[p] = "parse" /\ GoodResponse(resp[p])) => pc'[p] = "done"]_vars

C10_Witness ==
    \E p, q \in Procs :
      /\ p # q
      /\ pc[p] = "done"
      /\ RemoteOK(p)
      /\ InInitDB(q)
      /\ onceDone = 0
      /\ fsAccess = 0
====
